---- MODULE Spec2Model ----
(***************************************************************************)
(* HierarchicalRNNEncoder (texar/modules/encoders/hierarchical_encoders.py) *)
(* modelled as a state machine: one encoder instance, its _build call       *)
(* taken statement group by statement group, and the pure helpers           *)
(* _kwargs_split, _get_flatten_order and flatten as operators.              *)
(*                                                                         *)
(* Python values are tagged records [type, val] so that == between values   *)
(* of different types is False, as in Python.  A str's val is its sequence  *)
(* of characters.  A tensor is a record [shape, data] with data in          *)
(* row-major order; a rank-2 state tensor of a recurrent cell is kept as    *)
(* [rows, cols]: one entry per batch row and one tag per feature column.    *)
(***************************************************************************)
EXTENDS Integers, Sequences, FiniteSets, TLC

\* ------------------------------------------------------------------ bounds
MaxDim == 2      \* largest extent of each of the three leading input axes
EmbDim == 2      \* extent of the embedding axis inputs.shape[3]
MaxSteps == 2    \* longest medium list
MaxCalls == 2    \* calls made on one encoder instance
MaxLen == 2      \* longest sequence of states in a nested recurrent state

\* ------------------------------------------------------- Python values
PyStr(chars) == [type |-> "str", val |-> chars]
PyList(items) == [type |-> "list", val |-> items]
PyFunction(name) == [type |-> "function", val |-> name]
None == [type |-> "NoneType", val |-> <<>>]

\* a == b on Python values: values of different types are never equal
PyEq(a, b) == a.type = b.type /\ a.val = b.val

\* s[-n:] and s[:-n] on a sequence of characters
SliceLast(s, n) == IF Len(s) <= n THEN s ELSE SubSeq(s, Len(s) - n + 1, Len(s))
SliceButLast(s, n) == IF Len(s) <= n THEN <<>> ELSE SubSeq(s, 1, Len(s) - n)

s_minor == <<"_", "m", "i", "n", "o", "r">>
s_major == <<"_", "m", "a", "j", "o", "r">>
k_sequence_length ==
    <<"s", "e", "q", "u", "e", "n", "c", "e", "_", "l", "e", "n", "g", "t", "h">>
k_time_major == <<"t", "i", "m", "e", "_", "m", "a", "j", "o", "r">>
s_flatten == <<"f", "l", "a", "t", "t", "e", "n">>

\* ------------------------------------------------------- _kwargs_split
\* the test of line 231 / 233: len(k) >= 6 and k[-6:] == ['_minor']
SuffixTest(k, suffix) ==
    Len(k) >= 6 /\ PyEq(PyStr(SliceLast(k, 6)), PyList(<<PyStr(suffix)>>))

\* the dict one loop of _kwargs_split fills, then its sequence_length entry
SplitOne(kwargs, suffix, sequence_length) ==
    LET routed == {k \in DOMAIN kwargs : SuffixTest(k, suffix)}
        keys == {SliceButLast(k, 6) : k \in routed} \cup {k_sequence_length}
    IN  [b \in keys |->
            IF b = k_sequence_length THEN sequence_length ELSE kwargs[b \o suffix]]

kwargs_split(kwargs, sequence_length_minor, sequence_length_major) ==
    [kwargs_minor |-> SplitOne(kwargs, s_minor, sequence_length_minor),
     kwargs_major |-> SplitOne(kwargs, s_major, sequence_length_major)]

\* dict.setdefault(key, value), returning the dict
setdefault(d, key, value) ==
    IF key \in DOMAIN d THEN d
    ELSE [k \in DOMAIN d \cup {key} |-> IF k = key THEN value ELSE d[k]]

\* _get_flatten_order with the 'utb' branch's expand copied from 'btu'
get_flatten_order_copied_expand(order, kwargs_minor, kwargs_major, shape) ==
    LET tm(minor, major, expand, flat) ==
            [raised |-> "",
             kwargs_minor |-> setdefault(kwargs_minor, k_time_major, minor),
             kwargs_major |-> setdefault(kwargs_major, k_time_major, major),
             expand |-> expand, shape |-> flat]
        lead == <<shape[1], shape[2]>>
        trail == <<shape[2], shape[3]>>
        front == <<shape[1] * shape[2], shape[3]>>
        back == <<shape[1], shape[2] * shape[3]>>
    IN  CASE order = "btu" -> tm("False", "False", lead, front)
          [] order = "utb" -> tm("True", "True", lead, back)
          [] order = "tbu" -> tm("False", "True", lead, front)
          [] order = "ubt" -> tm("True", "False", trail, back)
          [] OTHER -> [raised |-> "UnboundLocalError",
                       kwargs_minor |-> kwargs_minor,
                       kwargs_major |-> kwargs_major,
                       expand |-> <<>>, shape |-> shape]

\* --------------------------------------------------- _get_flatten_order
\* shape is tf.shape(inputs), all four axes, indexed from 1 here.
\* An order outside the four branches leaves the local `expand` unbound, so
\* the return statement raises UnboundLocalError.
get_flatten_order(order, kwargs_minor, kwargs_major, shape) ==
    CASE order = "btu" ->
            [raised |-> "",
             kwargs_minor |-> setdefault(kwargs_minor, k_time_major, "False"),
             kwargs_major |-> setdefault(kwargs_major, k_time_major, "False"),
             expand |-> <<shape[1], shape[2]>>,
             shape |-> <<shape[1] * shape[2], shape[3]>>]
      [] order = "utb" ->
            [raised |-> "",
             kwargs_minor |-> setdefault(kwargs_minor, k_time_major, "True"),
             kwargs_major |-> setdefault(kwargs_major, k_time_major, "True"),
             expand |-> <<shape[2], shape[3]>>,
             shape |-> <<shape[1], shape[2] * shape[3]>>]
      [] order = "tbu" ->
            [raised |-> "",
             kwargs_minor |-> setdefault(kwargs_minor, k_time_major, "False"),
             kwargs_major |-> setdefault(kwargs_major, k_time_major, "True"),
             expand |-> <<shape[1], shape[2]>>,
             shape |-> <<shape[1] * shape[2], shape[3]>>]
      [] order = "ubt" ->
            [raised |-> "",
             kwargs_minor |-> setdefault(kwargs_minor, k_time_major, "True"),
             kwargs_major |-> setdefault(kwargs_major, k_time_major, "False"),
             expand |-> <<shape[2], shape[3]>>,
             shape |-> <<shape[1], shape[2] * shape[3]>>]
      [] OTHER ->
            [raised |-> "UnboundLocalError",
             kwargs_minor |-> kwargs_minor,
             kwargs_major |-> kwargs_major,
             expand |-> <<>>,
             shape |-> shape]

\* -------------------------------------------------------------- tensors
RECURSIVE Product(_)
Product(shape) == IF shape = <<>> THEN 1 ELSE Head(shape) * Product(Tail(shape))

\* the 4-D inputs of a call: the element at row-major offset o is labelled o
InputTensor(shape) ==
    [shape |-> shape, data |-> [i \in 1..Product(shape) |-> i - 1]]

\* tf.reshape(tensor, shape): the row-major data is kept, the shape replaced;
\* an element count that differs is an error
tf_reshape(tensor, shape) ==
    IF Product(shape) = Len(tensor.data)
    THEN [raised |-> "", value |-> [shape |-> shape, data |-> tensor.data]]
    ELSE [raised |-> "InvalidArgumentError", value |-> tensor]

\* tensor[i, j, k] of a rank-3 tensor, indices from 0
At3(tensor, i, j, k) ==
    tensor.data[1 + (i * tensor.shape[2] + j) * tensor.shape[3] + k]

\* a rank-2 or rank-3 state tensor whose last axis is the feature axis:
\* rows (row-major over the leading axes) and one tag per feature column
Tensor(shape, rows, cols) ==
    [type |-> "Tensor", val |-> [shape |-> shape, rows |-> rows, cols |-> cols]]
LSTMStateTuple(c, h) == [type |-> "LSTMStateTuple", val |-> [c |-> c, h |-> h]]
PyTuple(items) == [type |-> "tuple", val |-> items]
Unset == [type |-> "unset", val |-> <<>>]

isinstance_Sequence(x) == x.type \in {"tuple", "list", "str", "LSTMStateTuple"}

\* the elements `for v in x` yields
Iterate(x) ==
    CASE x.type = "str" -> [i \in 1..Len(x.val) |-> PyStr(<<x.val[i]>>)]
      [] x.type = "LSTMStateTuple" -> <<x.val.c, x.val.h>>
      [] OTHER -> x.val

RECURSIVE ConcatCols(_)
ConcatCols(tensors) ==
    IF tensors = <<>> THEN <<>>
    ELSE Head(tensors).val.cols \o ConcatCols(Tail(tensors))

\* tf.concat(tensors, -1) of state tensors with the same leading axes
tf_concat_last(tensors) ==
    LET cols == ConcatCols(tensors)
        lead == SubSeq(tensors[1].val.shape, 1, Len(tensors[1].val.shape) - 1)
    IN  Tensor(lead \o <<Len(cols)>>, tensors[1].val.rows, cols)

\* -------------------------------------------------------------- flatten
\* flatten taking the memory component of an LSTMStateTuple
RECURSIVE flatten_memory(_)
flatten_memory(x) ==
    IF x.type = "LSTMStateTuple" THEN x.val.c
    ELSE IF isinstance_Sequence(x)
         THEN tf_concat_last(
                  [i \in 1..Len(Iterate(x)) |-> flatten_memory(Iterate(x)[i])])
         ELSE x

RECURSIVE flatten(_)
flatten(x) ==
    IF x.type = "LSTMStateTuple" THEN x.val.h
    ELSE IF isinstance_Sequence(x)
         THEN tf_concat_last([i \in 1..Len(Iterate(x)) |-> flatten(Iterate(x)[i])])
         ELSE x

\* ------------------------------------------------------- medium (254-265)
\* Callables a caller may pass as medium steps: `name` takes every tensor of
\* the state it is given (memory components included), concatenates them
\* along the feature axis and applies an elementwise map, which is recorded
\* by prefixing each feature tag with the callable's name.
RECURSIVE AllTensors(_)
AllTensors(x) ==
    IF x.type = "Tensor" THEN <<x>>
    ELSE LET parts == [i \in 1..Len(Iterate(x)) |-> AllTensors(Iterate(x)[i])]
             Cat[i \in 0..Len(parts)] ==
                 IF i = 0 THEN <<>> ELSE Cat[i - 1] \o parts[i]
         IN  Cat[Len(parts)]

call_fn(fn, x) ==
    LET joined == tf_concat_last(AllTensors(x))
    IN  Tensor(joined.val.shape, joined.val.rows,
               [i \in 1..Len(joined.val.cols) |-> <<fn.val>> \o joined.val.cols[i]])

\* the loop of lines 259-263 from its i-th element on
RECURSIVE medium_loop(_, _, _)
medium_loop(steps, i, states_minor) ==
    IF i > Len(steps) THEN [raised |-> "", value |-> states_minor]
    ELSE LET fn == steps[i]
         IN  IF fn.type = "str" /\ PyEq(fn, PyStr(s_flatten))
             THEN medium_loop(steps, i + 1, flatten(states_minor))
             ELSE IF fn.type = "function"
                  THEN medium_loop(steps, i + 1, call_fn(fn, states_minor))
                  ELSE [raised |-> "TypeError", value |-> states_minor]

\* lines 254-263
run_medium(medium, states_minor) ==
    IF medium.type = "NoneType"
    THEN [raised |-> "", value |-> flatten(states_minor)]
    ELSE LET listed == IF ~isinstance_Sequence(medium)
                       THEN PyList(<<medium>>) ELSE medium
         IN  medium_loop(Iterate(listed), 1, states_minor)

\* lines 267-268: tf.reshape(states_minor, expand ++ tf.shape(states_minor)[1:])
reshape_states(states_minor, expand) ==
    LET v == states_minor.val
        shape == expand \o Tail(v.shape)
    IN  IF Product(shape) = Product(v.shape)
        THEN [raised |-> "", value |-> Tensor(shape, v.rows, v.cols)]
        ELSE [raised |-> "InvalidArgumentError", value |-> states_minor]

\* ------------------------------------------------------- sub-encoders
\* The minor encoder on a rank-3 tensor: with time_major the axes are
\* [time, batch, dim], without it [batch, time, dim].  Row b of every tensor
\* of its final state summarises the sequence of embedding vectors of batch
\* entry b; the summary is kept as that sequence itself.
CellKinds == {"GRUCell", "LSTMCell", "MultiRNNCell"}

final_state(cell, rows) ==
    LET T(tag) == Tensor(<<Len(rows), 1>>, rows, <<<<tag>>>>)
    IN  CASE cell = "GRUCell" -> T("h")
          [] cell = "LSTMCell" -> LSTMStateTuple(T("c"), T("h"))
          [] OTHER -> PyTuple(<<LSTMStateTuple(T("c1"), T("h1")),
                               LSTMStateTuple(T("c2"), T("h2"))>>)

encoder_minor(cell, inputs, kwargs) ==
    LET tm == kwargs[k_time_major] = "True"
        batch == IF tm THEN inputs.shape[2] ELSE inputs.shape[1]
        time == IF tm THEN inputs.shape[1] ELSE inputs.shape[2]
        vec(b, u) == [k \in 1..inputs.shape[3] |->
                        IF tm THEN At3(inputs, u - 1, b - 1, k - 1)
                        ELSE At3(inputs, b - 1, u - 1, k - 1)]
    IN  final_state(cell, [b \in 1..batch |-> [u \in 1..time |-> vec(b, u)]])

minor_trainable_variables == <<"encoder_minor/kernel">>
major_trainable_variables == <<"encoder_major/kernel">>

\* self._add_trainable_variable(variables)
add_trainable_variable(trainable, variables) == trainable \o variables

\* ------------------------------------------------------- the encoder
NThreads == 2    \* callers that may be inside _build at once

VARIABLES
    built,                        \* self._built
    trainable_variables,          \* self._trainable_variables
    states_minor_before_medium,   \* self.states_minor_before_medium
    states_minor_after_medium,    \* self.states_minor_after_medium
    cell,                         \* the cell kind of self._encoder_minor
    aggregations,                 \* times lines 276-279 have run
    calls,                        \* calls of _build begun
    returns,                      \* calls of _build that returned a value
    pc,                           \* per caller: where it is in _build
    frame                         \* per caller: the locals of its call

vars == <<built, trainable_variables, states_minor_before_medium,
          states_minor_after_medium, cell, aggregations, calls, returns,
          pc, frame>>

Threads == 1..NThreads

NoFrame ==
    [order |-> "", medium |-> None, kwargs |-> <<>>, raw_shape |-> <<>>,
     sequence_length_minor |-> "None", sequence_length_major |-> "None",
     kwargs_minor |-> <<>>, kwargs_major |-> <<>>, expand |-> <<>>,
     shape |-> <<>>, inputs |-> Unset, states_minor |-> Unset,
     raised |-> "", done |-> <<>>, result |-> "", pre |-> <<>>]

Init ==
    /\ built = FALSE
    /\ trainable_variables = <<>>
    /\ states_minor_before_medium = Unset
    /\ states_minor_after_medium = Unset
    /\ cell \in CellKinds
    /\ aggregations = 0
    /\ calls = 0
    /\ returns = 0
    /\ pc = [t \in Threads |-> "idle"]
    /\ frame = [t \in Threads |-> NoFrame]

\* what the encoder holds when a call begins
Snapshot ==
    [built |-> built, trainable_variables |-> trainable_variables,
     states_minor_before_medium |-> states_minor_before_medium,
     states_minor_after_medium |-> states_minor_after_medium]

\* the call of caller t has completed this step
Did(t, step) == \E i \in 1..Len(frame[t].done) : frame[t].done[i] = step

Raise(t, error, f) ==
    /\ pc' = [pc EXCEPT ![t] = "raised"]
    /\ frame' = [frame EXCEPT ![t] = [f EXCEPT !.raised = error]]

\* lines 241-248: split the kwargs, resolve the order, reshape the inputs.
\* Line 245 passes (order, kwargs_major, kwargs_minor, shape) to the
\* parameters (order, kwargs_minor, kwargs_major, shape); setdefault mutates
\* the dicts in place, so the callee's kwargs_minor is the caller's
\* kwargs_major and the other way round.
entry(in, snapshot) ==
    LET split == kwargs_split(in.kwargs, in.sequence_length_minor,
                              in.sequence_length_major)
        r == get_flatten_order(in.order, split.kwargs_major,
                               split.kwargs_minor, in.shape)
        f0 == [NoFrame EXCEPT
                 !.order = in.order, !.medium = in.medium,
                 !.kwargs = in.kwargs, !.raw_shape = in.shape,
                 !.sequence_length_minor = in.sequence_length_minor,
                 !.sequence_length_major = in.sequence_length_major,
                 !.kwargs_minor = r.kwargs_major,
                 !.kwargs_major = r.kwargs_minor,
                 !.done = <<"_kwargs_split", "_get_flatten_order">>,
                 !.pre = snapshot]
    IN  IF r.raised # ""
        THEN [raised |-> r.raised, frame |-> f0]
        ELSE LET rs == tf_reshape(InputTensor(in.shape),
                                  r.shape \o <<in.shape[4]>>)
             IN  [raised |-> rs.raised,
                  frame |-> [f0 EXCEPT !.expand = r.expand, !.shape = r.shape,
                                       !.inputs = rs.value,
                                       !.done = @ \o <<"reshape_inputs">>]]

Call(t, in) ==
    /\ pc[t] \in {"idle", "returned", "raised"}
    /\ LET e == entry(in, Snapshot)
       IN  IF e.raised # ""
           THEN Raise(t, e.raised, e.frame)
           ELSE /\ pc' = [pc EXCEPT ![t] = "minor"]
                /\ frame' = [frame EXCEPT ![t] = e.frame]
    /\ calls' = calls + 1
    /\ UNCHANGED <<built, trainable_variables, states_minor_before_medium,
                   states_minor_after_medium, cell, aggregations, returns>>

\* lines 250-252: the minor encoder returns
MinorReturns(t) ==
    /\ pc[t] = "minor"
    /\ LET states_minor ==
               encoder_minor(cell, frame[t].inputs, frame[t].kwargs_minor)
       IN  /\ states_minor_before_medium' = states_minor
           /\ frame' = [frame EXCEPT ![t].states_minor = states_minor,
                                     ![t].done = @ \o <<"encoder_minor">>]
    /\ pc' = [pc EXCEPT ![t] = "medium"]
    /\ UNCHANGED <<built, trainable_variables, states_minor_after_medium,
                   cell, aggregations, calls, returns>>

\* line 250: the minor encoder raises; nothing in _build catches it
MinorRaises(t) ==
    /\ pc[t] = "minor"
    /\ Raise(t, "encoder_minor", frame[t])
    /\ UNCHANGED <<built, trainable_variables, states_minor_before_medium,
                   states_minor_after_medium, cell, aggregations, calls,
                   returns>>

\* lines 254-265: the medium steps, then the second attribute
Medium(t) ==
    /\ pc[t] = "medium"
    /\ LET r == run_medium(frame[t].medium, frame[t].states_minor)
       IN  IF r.raised # ""
           THEN /\ Raise(t, r.raised, frame[t])
                /\ UNCHANGED states_minor_after_medium
           ELSE /\ states_minor_after_medium' = r.value
                /\ frame' = [frame EXCEPT ![t].states_minor = r.value,
                                          ![t].done = @ \o <<"medium">>]
                /\ pc' = [pc EXCEPT ![t] = "reshape"]
    /\ UNCHANGED <<built, trainable_variables, states_minor_before_medium,
                   cell, aggregations, calls, returns>>

\* lines 267-268
ReshapeStates(t) ==
    /\ pc[t] = "reshape"
    /\ LET r == reshape_states(frame[t].states_minor, frame[t].expand)
       IN  IF r.raised # ""
           THEN Raise(t, r.raised, frame[t])
           ELSE /\ frame' = [frame EXCEPT ![t].states_minor = r.value,
                                          ![t].done = @ \o <<"reshape_states">>]
                /\ pc' = [pc EXCEPT ![t] = "major"]
    /\ UNCHANGED <<built, trainable_variables, states_minor_before_medium,
                   states_minor_after_medium, cell, aggregations, calls,
                   returns>>

\* lines 270-271: the major encoder returns
MajorReturns(t) ==
    /\ pc[t] = "major"
    /\ frame' = [frame EXCEPT ![t].done = @ \o <<"encoder_major">>]
    /\ pc' = [pc EXCEPT ![t] = "check_built"]
    /\ UNCHANGED <<built, trainable_variables, states_minor_before_medium,
                   states_minor_after_medium, cell, aggregations, calls,
                   returns>>

\* the major encoder raises after self._built was set ahead of the call
MajorRaises_built(t) ==
    /\ pc[t] = "major"
    /\ Raise(t, "encoder_major", frame[t])
    /\ built' = TRUE
    /\ UNCHANGED <<trainable_variables, states_minor_before_medium,
                   states_minor_after_medium, cell, aggregations, calls,
                   returns>>

\* lines 270-271: the major encoder raises
MajorRaises(t) ==
    /\ pc[t] = "major"
    /\ Raise(t, "encoder_major", frame[t])
    /\ UNCHANGED <<built, trainable_variables, states_minor_before_medium,
                   states_minor_after_medium, cell, aggregations, calls,
                   returns>>

\* line 275 without its test of self._built
CheckBuilt_always(t) ==
    /\ pc[t] = "check_built"
    /\ pc' = [pc EXCEPT ![t] = "add_trainable"]
    /\ UNCHANGED <<built, trainable_variables, states_minor_before_medium,
                   states_minor_after_medium, cell, aggregations, calls,
                   returns, frame>>

\* line 275: if not self._built
CheckBuilt(t) ==
    /\ pc[t] = "check_built"
    /\ pc' = [pc EXCEPT ![t] = IF ~built THEN "add_trainable" ELSE "return"]
    /\ UNCHANGED <<built, trainable_variables, states_minor_before_medium,
                   states_minor_after_medium, cell, aggregations, calls,
                   returns, frame>>

\* lines 276-279
AddTrainable(t) ==
    /\ pc[t] = "add_trainable"
    /\ trainable_variables' =
           add_trainable_variable(
               add_trainable_variable(trainable_variables,
                                      minor_trainable_variables),
               major_trainable_variables)
    /\ aggregations' = aggregations + 1
    /\ frame' = [frame EXCEPT ![t].done = @ \o <<"add_trainable">>]
    /\ pc' = [pc EXCEPT ![t] = "set_built"]
    /\ UNCHANGED <<built, states_minor_before_medium,
                   states_minor_after_medium, cell, calls, returns>>

\* line 280
SetBuilt(t) ==
    /\ pc[t] = "set_built"
    /\ built' = TRUE
    /\ pc' = [pc EXCEPT ![t] = "return"]
    /\ UNCHANGED <<trainable_variables, states_minor_before_medium,
                   states_minor_after_medium, cell, aggregations, calls,
                   returns, frame>>

\* line 282
Return(t) ==
    /\ pc[t] = "return"
    /\ frame' = [frame EXCEPT ![t].result = "(outputs_major, states_major)"]
    /\ returns' = returns + 1
    /\ pc' = [pc EXCEPT ![t] = "returned"]
    /\ UNCHANGED <<built, trainable_variables, states_minor_before_medium,
                   states_minor_after_medium, cell, aggregations, calls>>

\* the steps of a call once the minor encoder has returned
AfterMinor(t) ==
    \/ Medium(t)
    \/ ReshapeStates(t)
    \/ MajorReturns(t)
    \/ MajorRaises(t)
    \/ CheckBuilt(t)
    \/ AddTrainable(t)
    \/ SetBuilt(t)
    \/ Return(t)

\* every step of a call after its entry
Step(t) ==
    \/ MinorReturns(t)
    \/ MinorRaises(t)
    \/ AfterMinor(t)

\* ------------------------------------------------------- inputs of a call
k_dropout_minor ==
    <<"d", "r", "o", "p", "o", "u", "t", "_", "m", "i", "n", "o", "r">>
k_dropout_major ==
    <<"d", "r", "o", "p", "o", "u", "t", "_", "m", "a", "j", "o", "r">>
k_foo == <<"f", "o", "o">>

Keys == {k_dropout_minor, k_dropout_major, k_foo}
KwValues == {"0.1", "0.2"}
KwargsDomain == UNION {[S -> KwValues] : S \in SUBSET Keys}

Orders == {"btu", "utb", "tbu", "ubt"}
OrderArgs == Orders \cup {"xyz"}

Shapes == {<<a, b, c, EmbDim>> : a \in 1..MaxDim, b \in 1..MaxDim, c \in 1..MaxDim}

MediumStep == {PyStr(s_flatten), PyFunction("f")}
MediumLists ==
    UNION {{PyList(l) : l \in [1..n -> MediumStep]} : n \in 1..MaxSteps}
Mediums == {None} \cup MediumStep \cup MediumLists

Input(order, shape, medium, slm, slM, kwargs) ==
    [order |-> order, shape |-> shape, medium |-> medium,
     sequence_length_minor |-> slm, sequence_length_major |-> slM,
     kwargs |-> kwargs]

\* one call: every keyword mapping with a fixed shape and the default medium,
\* and every shape and medium with no keyword arguments
CallInputs ==
    {Input(o, <<1, 2, 2, EmbDim>>, None, slm, slM, kw) :
        o \in OrderArgs, slm \in {"None", "sl_minor"},
        slM \in {"None", "sl_major"}, kw \in KwargsDomain}
    \cup
    {Input(o, s, m, "None", "None", <<>>) :
        o \in OrderArgs, s \in Shapes, m \in Mediums}

\* a series of calls on one instance
SeriesInputs ==
    {Input(o, <<2, 1, 2, EmbDim>>, m, "None", "None", <<>>) :
        o \in {"btu", "xyz"},
        m \in {None, PyFunction("f"), PyStr(s_flatten)}}

\* ------------------------------------------------------- specifications
\* one caller, one call, every input
NextCall ==
    \/ \E in \in CallInputs : calls < 1 /\ Call(1, in)
    \/ Step(1)

SpecCall == Init /\ [][NextCall]_vars

\* one caller, a series of calls
Next ==
    \/ \E in \in SeriesInputs : calls < MaxCalls /\ Call(1, in)
    \/ Step(1)

Spec == Init /\ [][Next]_vars

\* several callers inside _build at once, their steps interleaved
NextConc ==
    \E t \in Threads :
        \/ \E in \in SeriesInputs : calls < MaxCalls /\ Call(t, in)
        \/ Step(t)

SpecConc == Init /\ [][NextConc]_vars

\* the medium part of a call on any nested state the minor encoder's cell
\* may have produced: leaf tensors, LSTMStateTuples and tuples of states
FlattenInput == Input("btu", <<MaxLen, 1, 1, EmbDim>>, None, "None", "None", <<>>)
FlattenRows ==
    encoder_minor("GRUCell", entry(FlattenInput, <<>>).frame.inputs,
                  entry(FlattenInput, <<>>).frame.kwargs_minor).val.rows
StateTensor(tags) ==
    Tensor(<<Len(FlattenRows), Len(tags)>>, FlattenRows,
           [i \in 1..Len(tags) |-> <<tags[i]>>])
StateAtoms ==
    {StateTensor(<<"x">>),
     LSTMStateTuple(StateTensor(<<"c">>), StateTensor(<<"h1", "h2">>))}
TuplesOver(S) == {PyTuple(l) : l \in UNION {[1..n -> S] : n \in 1..MaxLen}}
NestedStates == StateAtoms \cup TuplesOver(StateAtoms \cup TuplesOver(StateAtoms))

InitFlatten ==
    \E x \in NestedStates :
        /\ built = FALSE
        /\ trainable_variables = <<>>
        /\ states_minor_before_medium = x
        /\ states_minor_after_medium = Unset
        /\ cell = "MultiRNNCell"
        /\ aggregations = 0
        /\ calls = 1
        /\ returns = 0
        /\ pc = [t \in Threads |-> IF t = 1 THEN "medium" ELSE "idle"]
        /\ frame = [t \in Threads |->
                      IF t = 1
                      THEN [entry(FlattenInput, Snapshot).frame EXCEPT
                              !.states_minor = x,
                              !.done = @ \o <<"encoder_minor">>,
                              !.pre = [built |-> FALSE,
                                       trainable_variables |-> <<>>,
                                       states_minor_before_medium |-> Unset,
                                       states_minor_after_medium |-> Unset]]
                      ELSE NoFrame]

NextFlatten == AfterMinor(1)

SpecFlatten == InitFlatten /\ [][NextFlatten]_vars

\* ------------------------------------------------------- C4
\* positions in a nested state: <<>> is the state itself, <<i>> its i-th
\* element, <<i, j>> the j-th element of that
StatePaths ==
    {<<>>} \cup {<<i>> : i \in 1..MaxLen}
           \cup {<<i, j>> : i \in 1..MaxLen, j \in 1..MaxLen}
HasNode(x, p) ==
    CASE Len(p) = 0 -> TRUE
      [] Len(p) = 1 -> x.type = "tuple" /\ p[1] <= Len(x.val)
      [] OTHER -> /\ x.type = "tuple" /\ p[1] <= Len(x.val)
                  /\ x.val[p[1]].type = "tuple"
                  /\ p[2] <= Len(x.val[p[1]].val)
NodeAt(x, p) ==
    CASE Len(p) = 0 -> x
      [] Len(p) = 1 -> x.val[p[1]]
      [] OTHER -> x.val[p[1]].val[p[2]]
AtomPaths(x) ==
    {p \in StatePaths :
        HasNode(x, p) /\ NodeAt(x, p).type \in {"Tensor", "LSTMStateTuple"}}
LeftOf(p, q) ==
    /\ Len(p) >= 1 /\ Len(q) >= 1
    /\ \/ p[1] < q[1]
       \/ p[1] = q[1] /\ Len(p) = 2 /\ Len(q) = 2 /\ p[2] < q[2]
\* the feature columns flatten is to keep of a leaf or a pair
Kept(n) == IF n.type = "LSTMStateTuple" THEN n.val.h.val.cols ELSE n.val.cols
RECURSIVE Width(_, _)
Width(x, paths) ==
    IF paths = {} THEN 0
    ELSE LET p == CHOOSE q \in paths : TRUE
         IN  Len(Kept(NodeAt(x, p))) + Width(x, paths \ {p})

FlattenedAs(x, y) ==
    /\ y.type = "Tensor"
    /\ y.val.rows = FlattenRows
    /\ y.val.shape = <<Len(FlattenRows), Len(y.val.cols)>>
    /\ Len(y.val.cols) = Width(x, AtomPaths(x))
    /\ \A p \in AtomPaths(x) :
          LET before == Width(x, {q \in AtomPaths(x) : LeftOf(q, p)})
              kept == Kept(NodeAt(x, p))
          IN  /\ SubSeq(y.val.cols, before + 1, before + Len(kept)) = kept
              /\ NodeAt(x, p).type = "LSTMStateTuple" =>
                     \A i \in 1..Len(y.val.cols) :
                         y.val.cols[i] \notin
                             {NodeAt(x, p).val.c.val.cols[j] :
                                 j \in 1..Len(NodeAt(x, p).val.c.val.cols)}
    /\ x.type = "Tensor" => y = x
    /\ x.type = "LSTMStateTuple" => y = x.val.h

\* C4: flatten of a nested state is one tensor whose feature columns are
\* those of every leaf and of every pair's hidden component, left to right,
\* with no memory column; a leaf is returned unchanged, a pair gives its h.
C4_FlattenConcatenatesHidden ==
    Did(1, "medium") =>
        FlattenedAs(states_minor_before_medium, states_minor_after_medium)

C4_Witness ==
    /\ Did(1, "medium")
    /\ states_minor_before_medium.type = "tuple"
    /\ Len(states_minor_before_medium.val) = MaxLen
    /\ states_minor_before_medium.val[1].type = "tuple"
    /\ states_minor_before_medium.val[1].val[1].type = "LSTMStateTuple"
    /\ states_minor_before_medium.val[MaxLen].type = "Tensor"
    /\ Len(states_minor_after_medium.val.cols) >= 3

\* ------------------------------------------------------- C1
\* what the argument split is specified to return for one suffix
EndsWith(k, suffix) == Len(k) >= 6 /\ SliceLast(k, 6) = suffix
RoutedSplit(kwargs, suffix, sequence_length) ==
    LET routed == {k \in DOMAIN kwargs : EndsWith(k, suffix)}
        keys == {SliceButLast(k, 6) : k \in routed} \cup {k_sequence_length}
    IN  [b \in keys |->
            IF b = k_sequence_length THEN sequence_length ELSE kwargs[b \o suffix]]

\* a dict without its time_major entry, which _get_flatten_order adds later
WithoutTimeMajor(d) == [k \in DOMAIN d \ {k_time_major} |-> d[k]]

\* C1: once the split has run, kwargs_minor is exactly the '_minor' keys with
\* the suffix stripped plus sequence_length = sequence_length_minor, and
\* kwargs_major likewise for '_major'; unsuffixed keys are in neither.
C1_SplitRoutesSuffixedKeys ==
    pc[1] # "idle" =>
        /\ WithoutTimeMajor(frame[1].kwargs_minor)
             = RoutedSplit(frame[1].kwargs, s_minor,
                           frame[1].sequence_length_minor)
        /\ WithoutTimeMajor(frame[1].kwargs_major)
             = RoutedSplit(frame[1].kwargs, s_major,
                           frame[1].sequence_length_major)

\* ------------------------------------------------------- C2
MinorTimeMajor(order) == IF order \in {"utb", "ubt"} THEN "True" ELSE "False"
MajorTimeMajor(order) == IF order \in {"utb", "tbu"} THEN "True" ELSE "False"

\* C2: the minor encoder is invoked with time_major True exactly for 'utb'
\* and 'ubt', the major encoder exactly for 'utb' and 'tbu'.
C2_TimeMajorFollowsOrder ==
    /\ Did(1, "encoder_minor") =>
           frame[1].kwargs_minor[k_time_major] = MinorTimeMajor(frame[1].order)
    /\ Did(1, "encoder_major") =>
           frame[1].kwargs_major[k_time_major] = MajorTimeMajor(frame[1].order)

\* ------------------------------------------------------- C3
\* C3: a call with an order outside the four codes ends in the explicit
\* invalid-order error, with no reshape and no sub-encoder call.
C3_InvalidOrderRejected ==
    (pc[1] # "idle" /\ frame[1].order \notin Orders) =>
        /\ pc[1] = "raised"
        /\ frame[1].raised = "InvalidOrderCode"
        /\ ~Did(1, "reshape_inputs")
        /\ ~Did(1, "encoder_minor")
        /\ ~Did(1, "encoder_major")

\* ------------------------------------------------------- C8
Resolved(t) == frame[t].order \in Orders /\ Did(t, "reshape_inputs")
CollapsedAxes(order) == IF order \in {"btu", "tbu"} THEN <<1, 2>> ELSE <<2, 3>>
InnerAxis(order) == IF order \in {"btu", "tbu"} THEN 3 ELSE 1

\* C8 as stated: flatten_shape is (product of the two collapsed axes, inner
\* length) for all four orders, expand_shape the two collapsed axes.
C8_FlattenShapeCollapsedFirst ==
    Resolved(1) =>
        LET raw == frame[1].raw_shape
            col == CollapsedAxes(frame[1].order)
        IN  /\ frame[1].shape
                 = <<raw[col[1]] * raw[col[2]], raw[InnerAxis(frame[1].order)]>>
            /\ frame[1].expand = <<raw[col[1]], raw[col[2]]>>

\* C8 amended: the collapsed axis comes first for 'btu' and 'tbu' and second
\* for 'utb' and 'ubt'; expand_shape is the two collapsed axes in order.
C8_FlattenShapeByLayout ==
    Resolved(1) =>
        LET raw == frame[1].raw_shape
            col == CollapsedAxes(frame[1].order)
            collapsed == raw[col[1]] * raw[col[2]]
            inner == raw[InnerAxis(frame[1].order)]
        IN  /\ Len(frame[1].shape) = 2
            /\ Len(frame[1].expand) = 2
            /\ frame[1].shape = IF frame[1].order \in {"btu", "tbu"}
                                THEN <<collapsed, inner>>
                                ELSE <<inner, collapsed>>
            /\ frame[1].expand = <<raw[col[1]], raw[col[2]]>>

C8_Witness ==
    /\ Resolved(1)
    /\ frame[1].order = "utb"
    /\ frame[1].raw_shape = <<1, 2, MaxDim, EmbDim>>
    /\ frame[1].shape = <<1, 2 * MaxDim>>

\* ------------------------------------------------------- C9
\* the label InputTensor gives the element at [i0, i1, i2, k], indices from 0
Label(raw, i0, i1, i2, k) == ((i0 * raw[2] + i1) * raw[3] + i2) * raw[4] + k

\* the inner sequence whose two collapsed-axis indices are (p, q): its
\* embedding vectors along the inner axis
InnerSequence(raw, order, p, q) ==
    [u \in 1..raw[InnerAxis(order)] |->
        [k \in 1..raw[4] |->
            IF order \in {"btu", "tbu"}
            THEN Label(raw, p, q, u - 1, k - 1)
            ELSE Label(raw, u - 1, p, q, k - 1)]]

\* the flattened inputs hold every element of the original at the collapsed
\* index c with (c div e1, c mod e1) its two collapsed-axis indices
RoundTrip(f) ==
    LET raw == f.raw_shape
        e1 == f.expand[2]
    IN  \A i0 \in 0..raw[1] - 1, i1 \in 0..raw[2] - 1, i2 \in 0..raw[3] - 1,
           k \in 0..raw[4] - 1 :
            IF f.order \in {"btu", "tbu"}
            THEN LET c == i0 * raw[2] + i1
                 IN  /\ At3(f.inputs, c, i2, k) = Label(raw, i0, i1, i2, k)
                     /\ <<c \div e1, c % e1>> = <<i0, i1>>
            ELSE LET c == i1 * raw[3] + i2
                 IN  /\ At3(f.inputs, i0, c, k) = Label(raw, i0, i1, i2, k)
                     /\ <<c \div e1, c % e1>> = <<i1, i2>>

\* C9: flatten then expand keeps every element at its original leading
\* indices, the reshape of the reduced state never fails, and the major
\* encoder receives at (p, q) the row that summarises the inner sequence at
\* (p, q).
C9_RowsReachTheirPosition ==
    Resolved(1) =>
        /\ RoundTrip(frame[1])
        /\ pc[1] = "raised" => frame[1].raised # "InvalidArgumentError"
        /\ pc[1] = "major" =>
               LET v == frame[1].states_minor.val
                   e == frame[1].expand
               IN  /\ SubSeq(v.shape, 1, 2) = e
                   /\ \A p \in 0..e[1] - 1, q \in 0..e[2] - 1 :
                          v.rows[p * e[2] + q + 1]
                            = InnerSequence(frame[1].raw_shape,
                                            frame[1].order, p, q)

\* ------------------------------------------------------- C10
\* the steps a medium argument stands for, as specified
RefSteps(medium) ==
    CASE medium.type = "NoneType" -> <<PyStr(s_flatten)>>
      [] medium.type = "list" -> medium.val
      [] OTHER -> <<medium>>

RECURSIVE RefApply(_, _)
RefApply(steps, value) ==
    IF steps = <<>> THEN value
    ELSE RefApply(Tail(steps),
                  IF PyEq(Head(steps), PyStr(s_flatten))
                  THEN flatten(value) ELSE call_fn(Head(steps), value))

\* C10: once the medium part of a call has run, states_minor_before_medium
\* is the minor encoder's final state and states_minor_after_medium is the
\* steps applied to it in order, None standing for ['flatten'] and a single
\* step s for [s].
C10_MediumAppliesStepsInOrder ==
    (Did(1, "encoder_minor") /\ pc[1] # "medium") =>
        /\ states_minor_before_medium
             = encoder_minor(cell, frame[1].inputs, frame[1].kwargs_minor)
        /\ states_minor_after_medium
             = RefApply(RefSteps(frame[1].medium), states_minor_before_medium)

\* ------------------------------------------------------- C5
\* C5: in a series of calls the aggregation runs once, in the first call
\* whose major encoder returned; built is false until then and never reverts.
C5_AggregatedOnceInSeries ==
    /\ [](/\ aggregations <= 1
          /\ returns >= 1 =>
                 /\ built
                 /\ aggregations = 1
                 /\ trainable_variables
                      = minor_trainable_variables \o major_trainable_variables
          /\ aggregations = 0 => (~built /\ trainable_variables = <<>>)
          /\ built => aggregations = 1)
    /\ [][/\ built => built'
          /\ aggregations' # aggregations =>
                 (returns = 0 /\ ~built /\ Did(1, "encoder_major"))
          /\ (built /\ aggregations = 1) =>
                 trainable_variables' = trainable_variables]_vars

C5_Witness ==
    /\ returns = 2
    /\ calls = MaxCalls
    /\ built
    /\ aggregations = 1

\* ------------------------------------------------------- C6
\* C6: however the steps of concurrent calls interleave, the aggregation
\* of lines 276-279 runs at most once.
C6_AggregatedOnceWhenInterleaved == aggregations <= 1

\* ------------------------------------------------------- C7
EntryDone == <<"_kwargs_split", "_get_flatten_order", "reshape_inputs">>
Failed(t, encoder) == pc[t] = "raised" /\ frame[t].raised = encoder

\* no retry, nothing after the failing call, no value
StopsAt(t) ==
    /\ Failed(t, "encoder_minor") => frame[t].done = EntryDone
    /\ Failed(t, "encoder_major") =>
           frame[t].done
             = EntryDone \o <<"encoder_minor", "medium", "reshape_states">>
    /\ frame[t].result = ""

\* C7 as stated: after a sub-encoder failure built, the aggregated
\* parameters and both diagnostic attributes are as before the call.
C7_FailureLeavesNoState ==
    (Failed(1, "encoder_minor") \/ Failed(1, "encoder_major")) =>
        /\ StopsAt(1)
        /\ Snapshot = frame[1].pre

\* C7 amended: built and the aggregated parameters are as before the call;
\* after a minor failure so are both attributes, after a major failure they
\* hold the failed call's minor final state and its reduced state.
C7_FailureKeepsDiagnostics ==
    (Failed(1, "encoder_minor") \/ Failed(1, "encoder_major")) =>
        /\ StopsAt(1)
        /\ built = frame[1].pre.built
        /\ trainable_variables = frame[1].pre.trainable_variables
        /\ Failed(1, "encoder_minor") => Snapshot = frame[1].pre
        /\ Failed(1, "encoder_major") =>
               LET final == encoder_minor(cell, frame[1].inputs,
                                          frame[1].kwargs_minor)
               IN  /\ states_minor_before_medium = final
                   /\ states_minor_after_medium
                        = run_medium(frame[1].medium, final).value

C7_Witness ==
    /\ Failed(1, "encoder_major")
    /\ frame[1].pre.built
    /\ states_minor_after_medium # frame[1].pre.states_minor_after_medium

====
